---- MODULE Spec2Model ----
(***************************************************************************)
(* Model of gag, a declaratively configured HTTP gateway built on          *)
(* gorilla/mux: the registration API of Condition, Gag.Serve and its       *)
(* validation, the per-Condition dispatch closure of configureMuxHandlers, *)
(* the middleware chain and the terminal actions.                          *)
(*                                                                         *)
(* Spec starts from registries as the registration calls leave them,       *)
(* SpecProxy from one proxying Condition and a backend of any behaviour,   *)
(* SpecReg from NewGag and takes the registration calls one at a time,     *)
(* SpecConc handles several requests at the same time.                     *)
(*                                                                         *)
(* The code takes no lock. A request is handled in a goroutine of its own, *)
(* Serve runs in the goroutine of its caller, and each of them reads the   *)
(* Conditions field by field, load by load; a registration call may fall   *)
(* between any two loads, and it stores a string or a slice word by word,  *)
(* so that a load may fall between the stores of its words. Once no        *)
(* registration call is to come, nothing writes what these loads read, and *)
(* a run of loads is taken as one step.                                    *)
(*                                                                         *)
(* Strings built by concatenation are modelled as sequences of pieces;     *)
(* a nil pointer is a record whose field set is FALSE, a nil func is "".   *)
(* A position in the code is named by its line in gag.go.                  *)
(***************************************************************************)
EXTENDS Integers, Sequences, FiniteSets, TLC

VARIABLES
    heap,        \* the *Condition objects allocated so far, by address 1..Len(heap)
    conditions,  \* Gag.conditions: a sequence of addresses into heap
    phase,       \* where the caller of Serve stands: "config" (not called),
                 \* "validate", "listen", "configure", "serving", "failed" (returned),
                 \* "panicked"
    serveErr,    \* the error Serve returned ("" when none)
    listener,    \* Gag.l: TRUE once net.Listen has succeeded
    mux,         \* Gag.mux: the routes bound by configureHandler
    srv,         \* the locals of the running call of Serve
    backend,     \* how the proxied backend answers (the environment)
    finalized,   \* by address: how often Route or HandlerFunc was called on the Condition
    callsLeft,   \* registration calls the program has yet to make
    store,       \* the store a registration call has begun and not yet completed
    inflight     \* the goroutines http.Serve runs handlers in, each with its own locals

vars ==
    <<heap, conditions, phase, serveErr, listener, mux, srv, backend, finalized,
      callsLeft, store, inflight>>

----------------------------------------------------------------------------
(* Bounds *)

MaxChain == 2    \* longest middleware chain given to Middlewares
MaxHdrs == 2     \* most header lines a request carries
MaxConds == 2    \* most Conditions in a registry
MaxCalls == 4    \* most registration calls made one after the other
MaxInFlight == 2 \* most requests handled at the same time

----------------------------------------------------------------------------
(* Values *)

RECURSIVE SeqsUpTo(_, _)
SeqsUpTo(S, n) ==
    IF n = 0 THEN {<<>>}
    ELSE LET shorter == SeqsUpTo(S, n - 1)
         IN shorter \cup {Append(s, x) : s \in {t \in shorter : Len(t) = n - 1}, x \in S}

Range(s) == {s[i] : i \in 1..Len(s)}

NilHeaderValue == [set |-> FALSE, Key |-> "", Value |-> ""]
NilRouteRequest ==
    [set |-> FALSE, Url |-> "", HttpMethod |-> "", Timeout |-> 0, PassRequestBody |-> FALSE]

\* &Condition{}: every field at its zero value.
EmptyCondition ==
    [httpMethod |-> "", routeRequest |-> NilRouteRequest, header |-> "",
     headerValue |-> NilHeaderValue, path |-> "", handlerFunc |-> "",
     middlewares |-> <<>>]

Middleware == {"A", "B"}
Chains == SeqsUpTo(Middleware, MaxChain)

sampleRoute ==
    [set |-> TRUE, Url |-> "http://127.0.0.1:8081/demo", HttpMethod |-> "POST",
     Timeout |-> 2, PassRequestBody |-> TRUE]

----------------------------------------------------------------------------
(* The request as net/http hands it to the handler *)

\* textproto.CanonicalMIMEHeaderKey on the header names used here: the server
\* stores every received header under its canonical name.
CanonicalMIMEHeaderKey(s) ==
    CASE s = "x-key" -> "X-Key"
      [] s = "x-key-two" -> "X-Key-Two"
      [] OTHER -> s

\* r.Header: canonical name -> the values received under it, in order.
Header(lines) ==
    [k \in {CanonicalMIMEHeaderKey(l[1]) : l \in Range(lines)} |->
        LET sel == SelectSeq(lines, LAMBDA l : CanonicalMIMEHeaderKey(l[1]) = k)
        IN [i \in 1..Len(sel) |-> sel[i][2]]]

\* m[k] on a Go map: the zero value (a nil slice) when k is absent.
Lookup(m, k) == IF k \in DOMAIN m THEN m[k] ELSE <<>>

----------------------------------------------------------------------------
(* http.ResponseWriter *)

NewResponse ==
    [status |-> 0, contentType |-> "", body |-> <<>>,
     headerCalls |-> 0, writeCalls |-> 0, panicked |-> FALSE]

\* w.Header().Set/Add("Content-Type", ct): no effect once the header is sent.
SetContentType(w, ct) ==
    IF w.status = 0 THEN [w EXCEPT !.contentType = ct] ELSE w

\* w.WriteHeader(code): the first call fixes the status.
WriteHeader(w, code) ==
    [w EXCEPT !.status = IF @ = 0 THEN code ELSE @, !.headerCalls = @ + 1]

\* w.Write(b): sends 200 first when no status was written.
Write(w, b) ==
    [w EXCEPT !.status = IF @ = 0 THEN 200 ELSE @,
              !.body = @ \o b,
              !.writeCalls = @ + 1]

\* What the client receives once the handler has returned: an untouched
\* response goes out as 200 with no body; a body without Content-Type is
\* sniffed, and every body here is text.
Finish(w) ==
    IF w.panicked THEN w
    ELSE [w EXCEPT !.status = IF @ = 0 THEN 200 ELSE @,
                   !.contentType =
                       IF @ = "" /\ w.body # <<>> THEN "text/plain; charset=utf-8" ELSE @]

----------------------------------------------------------------------------
(* Terminal actions *)

\* sampleHandler of the tests: json.Marshal of the sample response cannot
\* fail, so the handler adds the Content-Type, writes 200 and the body.
sampleHandlerBody == <<"{\"message\":\"sample handler!\"}">>

sampleHandler(st) ==
    [st EXCEPT !.w = Write(WriteHeader(SetContentType(@, "application/json"), 200),
                           sampleHandlerBody),
               !.trace = Append(@, <<"handler", "sampleHandler">>)]

\* http.NewRequestWithContext fails on a method that is no token and, the
\* method being valid, on a URL that does not parse; <<>> when it succeeds.
\* Both texts quote the offending value (%q).
NewRequestError(rr) ==
    IF rr.HttpMethod = "BAD METHOD"
    THEN <<"net/http: invalid method ", "\"", rr.HttpMethod, "\"">>
    ELSE IF rr.Url = ":bad"
    THEN <<"parse ", "\"", rr.Url, "\"", ": missing protocol scheme">>
    ELSE <<>>

\* What the proxy closure has done so far: the requests client.Do was called
\* with, the error that ended it, whether the transport read r.Body, which
\* deferred calls are pending, which bodies were closed, and whether it is
\* blocked in client.Do for good.
NoProxy ==
    [outbound |-> <<>>, err |-> <<>>, inboundRead |-> FALSE, inboundClosed |-> FALSE,
     respObtained |-> FALSE, respClosed |-> FALSE, deferred |-> <<>>, hung |-> FALSE]

\* A nil io.Reader, and r.Body as a reader of the inbound body.
NilBody == [set |-> FALSE, bytes |-> <<>>]
Body(r) == [set |-> TRUE, bytes |-> r.body]

\* context.Background(): never cancelled.
Background(r) == [cancels |-> FALSE]

\* r.Context(): the context the server cancels when it finds that the caller
\* of r has gone away.
Context(r) == [cancels |-> TRUE]

\* ctx.Done() is closed: at tells where the goroutine of the request stood
\* when the server cancelled the request's context ("": it has not).
CtxDone(ctx, at) == ctx.cancels /\ at # ""

\* http.NewRequestWithContext(ctx, method, url, body): "" means GET.
NewRequestWithContext(ctx, method, url, body) ==
    [ctx |-> ctx, method |-> IF method = "" THEN "GET" ELSE method, url |-> url,
     body |-> body, contentType |-> ""]

\* The outbound request as it would be were the inbound method passed on.
BuildOutboundInboundMethod(r, rr) ==
    IF rr.PassRequestBody
    THEN [NewRequestWithContext(Context(r), r.method, rr.Url, Body(r))
             EXCEPT !.contentType = "application/json"]
    ELSE NewRequestWithContext(Context(r), r.method, rr.Url, NilBody)

\* The outbound request of the two branches of the closure, for a
\* RouteRequest NewRequestWithContext accepts.
BuildOutbound(r, rr) ==
    IF rr.PassRequestBody
    THEN [NewRequestWithContext(Context(r), rr.HttpMethod, rr.Url, Body(r))
             EXCEPT !.contentType = "application/json"]
    ELSE NewRequestWithContext(Context(r), rr.HttpMethod, rr.Url, NilBody)

\* The *url.Error client.Do returns: Op is the method with only its first
\* letter in upper case.
UrlErrorOp(method) ==
    CASE method = "GET" -> "Get"
      [] method = "POST" -> "Post"
      [] OTHER -> method

UrlError(q, cause) == <<UrlErrorOp(q.method), " \"", q.url, "\": ", cause>>

\* client.Do(req), up to the request being written: it fails at once when
\* the context is done (done) and when the backend refuses the connection;
\* otherwise the request goes out, and with it its body.
DoSend(q, be, done) ==
    IF done
    THEN [kind |-> "err", err |-> UrlError(q, "context canceled")]
    ELSE IF be.kind = "doError"
    THEN [kind |-> "err", err |-> UrlError(q, be.err[1])]
    ELSE [kind |-> "sent", err |-> <<>>]

\* client.Do(req) of http.Client{Timeout: timeout}, waiting for the answer:
\* the context's error when the context is done, the timeout's error when the
\* backend stays silent beyond a timeout, the response when the backend
\* answers. With no timeout and a silent backend it waits: for the
\* cancellation when one may still come (mayCancel), else for good.
DoAwait(timeout, q, be, done, mayCancel) ==
    IF done
    THEN [kind |-> "err", err |-> UrlError(q, "context canceled")]
    ELSE IF be.kind = "silent"
    THEN IF timeout > 0
         THEN [kind |-> "err",
               err |-> UrlError(q, "context deadline exceeded (Client.Timeout exceeded while awaiting headers)")]
         ELSE IF mayCancel THEN [kind |-> "wait", err |-> <<>>]
         ELSE [kind |-> "hang", err |-> <<>>]
    ELSE [kind |-> "resp", err |-> <<>>]

\* io.ReadAll(resp.Body): the bytes, or the error the read ended with.
ReadAll(be) ==
    IF be.kind = "readError" THEN [err |-> be.err, bytes |-> <<>>]
    ELSE [err |-> <<>>, bytes |-> be.body]

\* defer x.Close()
Defer(st, x) == [st EXCEPT !.px.deferred = Append(@, x)]

\* The return as it would be were only the last deferred call run.
RunLastDeferred(st) ==
    LET d == st.px.deferred IN
    [st EXCEPT !.px.inboundClosed = d # <<>> /\ d[Len(d)] = "r.Body",
               !.px.respClosed = d # <<>> /\ d[Len(d)] = "resp.Body",
               !.px.deferred = <<>>]

\* The return of the closure, also by a panic: every deferred Close runs.
RunDeferred(st) ==
    [st EXCEPT !.px.inboundClosed = "r.Body" \in Range(st.px.deferred),
               !.px.respClosed = "resp.Body" \in Range(st.px.deferred),
               !.px.deferred = <<>>]

\* The failure as it would be were the error text left out.
ProxyFailNoText(st, what, err) ==
    [st EXCEPT !.w = WriteHeader(@, 500),
               !.px.err = err,
               !.trace = Append(@, <<"proxy", what>>)]

\* Both branches of the proxy closure end the same way on a failure.
ProxyFail(st, what, err) ==
    [st EXCEPT !.w = Write(WriteHeader(@, 500), err),
               !.px.err = err,
               !.trace = Append(@, <<"proxy", what>>)]

\* The success as it would be were only the body written.
RelayBodyOnly(st, status, bodyBytes) ==
    [st EXCEPT !.w = Write(@, bodyBytes),
               !.trace = Append(@, <<"proxy", "relayed">>)]

\* The last lines of the closure on success.
Relay(st, status, bodyBytes) ==
    [st EXCEPT !.w = Write(WriteHeader(SetContentType(@, "application/json"), status),
                           bodyBytes),
               !.trace = Append(@, <<"proxy", "relayed">>)]

\* A nil pointer is dereferenced or a nil func called: the handler panics.
Panic(st, what) ==
    [st EXCEPT !.w.panicked = TRUE, !.trace = Append(@, <<"panic", what>>)]

\* http.NotFound, the answer of an empty http.ServeMux and of a gorilla
\* router no route of which matches.
NotFound(st) ==
    [st EXCEPT !.w = Write(WriteHeader(SetContentType(@, "text/plain; charset=utf-8"), 404),
                           <<"404 page not found\n">>),
               !.trace = Append(@, <<"notfound", "">>)]

----------------------------------------------------------------------------
(* middlewareChain.wrap and the handlers it builds *)

\* An http.Handler is the sequence of its layers, innermost first: h[1] is
\* what the innermost wrapper calls, h[Len(h)] is the handler entered first.
Layer(kind, name, c) == [kind |-> kind, name |-> name, c |-> c]

RECURSIVE wrapFrom(_, _, _, _)
wrapFrom(mws, inner, h, i) ==
    IF i > Len(mws) THEN h
    ELSE IF i = 1 THEN wrapFrom(mws, inner, <<inner, Layer("mw", mws[i], 0)>>, i + 1)
    ELSE wrapFrom(mws, inner, Append(h, Layer("mw", mws[i], 0)), i + 1)

Reverse(s) == [i \in 1..Len(s) |-> s[Len(s) + 1 - i]]

\* wrap as it would be were the loop to run from the last middleware down:
\* the first-registered middleware ends up outermost.
wrapLastInnermost(mws, inner, h) ==
    wrapFrom(Reverse(mws), inner, IF h = <<>> THEN <<Layer("servemux", "", 0)>> ELSE h, 1)

\* mc.wrap(handlerFunc, h): h = nil becomes an empty ServeMux; middlewares[0]
\* wraps handlerFunc, every later one wraps the result so far.
wrap(mws, inner, h) ==
    wrapFrom(mws, inner, IF h = <<>> THEN <<Layer("servemux", "", 0)>> ELSE h, 1)

\* What configureMuxHandlers has loaded from the Condition it works on: the
\* outcome of len(c.middlewares.middlewares) > 0 and of c.handlerFunc != nil,
\* the chain and the func it then passes on, and the path of the inner route.
NoLoc == [wrapped |-> FALSE, isFunc |-> FALSE, mws |-> <<>>, f |-> "", inner |-> ""]

\* The terminal handler for the Condition at address a: the handler func
\* loaded, or the proxy closure (which keeps the pointer c).
terminalOf(loc, a) ==
    IF loc.isFunc THEN Layer("func", loc.f, 0) ELSE Layer("proxy", "", a)

\* The handler h chosen at the top of configureMuxHandlers, wrapped when
\* there were middlewares.
handlerOf(loc, a) ==
    IF loc.wrapped THEN wrap(loc.mws, terminalOf(loc, a), <<>>)
    ELSE <<terminalOf(loc, a)>>

----------------------------------------------------------------------------
(* Inputs *)

Methods == {"GET", "POST"}
Paths == {"/a", "/b", "/zz"}

\* Header lines as they come over the wire: <<name, value>>.
HeaderLines ==
    {<<"X-Key", "someValue">>, <<"X-Key", "someWrongValue">>, <<"x-key", "someValue">>,
     <<"X-Key-Two", "someValue">>}

\* body is what the caller sends as the request body; gone tells that the
\* caller closes its connection at some time while the request is handled.
Requests ==
    [path : Paths, method : Methods, lines : SeqsUpTo(HeaderLines, MaxHdrs),
     body : {<<>>}, gone : {FALSE}]

NoRequest == [path |-> "", method |-> "", lines |-> <<>>, body |-> <<>>, gone |-> FALSE]

HV(k, v) == [set |-> TRUE, Key |-> k, Value |-> v]

\* A Condition as a chain of registration calls ending in HandlerFunc or
\* Route leaves it: Path(p).Method(m).HasHeader(h).HasHeaderValue(..)
\* .Middlewares(..).HandlerFunc(f, g).
Cond(p, m, h, hv, mws, f, rr) ==
    [httpMethod |-> m, routeRequest |-> rr, header |-> h, headerValue |-> hv,
     path |-> p, handlerFunc |-> f, middlewares |-> mws]

\* One Condition on /a, over every combination of the three predicates and
\* every middleware chain.
MatchConditions ==
    {Cond("/a", m, h, hv, mws, "sampleHandler", NilRouteRequest) :
        m \in {"", "GET", "POST"},
        h \in {"", "X-Key", "x-key"},
        hv \in {NilHeaderValue, HV("X-Key", "someValue"), HV("X-Key-Two", "someValue"),
                HV("x-key-two", "someValue")},
        mws \in Chains}

\* One proxying Condition on /a, over every middleware chain.
RouteConditions ==
    {Cond("/a", "", "", NilHeaderValue, mws, "", sampleRoute) : mws \in Chains}

\* Conditions that may share a path.
SharedPathConditions ==
    {Cond(p, m, h, NilHeaderValue, <<>>, "sampleHandler", NilRouteRequest) :
        p \in {"/a", "/b"}, m \in {"GET", "POST"}, h \in {"", "X-Key"}}

\* Conditions as one call of Route or HandlerFunc also leaves them: Path
\* never called or called with "", Route(nil, g) or HandlerFunc(nil, g)
\* (neither action).
UncheckedConditions ==
    {c \in {Cond(p, "", "", NilHeaderValue, <<>>, f, rr) :
               p \in {"", "/a"}, f \in {"", "sampleHandler"},
               rr \in {NilRouteRequest, sampleRoute}} :
        ~(c.handlerFunc # "" /\ c.routeRequest.set)}

Registries ==
    {<<c>> : c \in MatchConditions \cup RouteConditions}
    \cup (SeqsUpTo(SharedPathConditions, MaxConds) \ SeqsUpTo(SharedPathConditions, 1))
    \cup (SeqsUpTo(UncheckedConditions, MaxConds) \ {<<>>})

okBackend == [kind |-> "ok", status |-> 201, body |-> <<"{\"ok\":true}">>, err |-> <<>>]

----------------------------------------------------------------------------
(* A store under way *)

\* No store is under way. A store under way is that of a string or a slice
\* (of more than one word) to the field of the Condition at address a, or to
\* g.conditions when a = 0: str or seq is the value being stored, and first
\* the word of it that is in memory already, "len" or "ptr" ("none" as long
\* as neither is). The variable stored to keeps its value in heap or
\* conditions until the store is complete.
NoStore == [a |-> 0, field |-> "", first |-> "", str |-> "", seq |-> <<>>]

Storing == store.field # ""

\* A registration call may still come or has not yet completed its store:
\* what Serve and the handlers load from a Condition may change between two
\* loads.
Racing == callsLeft > 0 \/ Storing

\* The two words a load gets of a variable that holds from and is being
\* stored to: each is the old one until the store has written it. The length
\* is given by the value it is the length of.
Words(from, to, first) ==
    [ptr |-> IF first = "ptr" THEN to ELSE from,
     len |-> IF first = "len" THEN to ELSE from]

\* A string that is none of those a request carries or a Condition is given.
Garbled == "?"

\* The string behind the words w: that of the pointer when the length is its
\* own (or that of one as long), "" with the length 0, and else bytes that
\* make up neither value. With a length above 0 at the pointer of "", which
\* is nil, a load that reads the bytes faults.
StrOf(w) ==
    IF Len(w.len) = Len(w.ptr) THEN w.ptr
    ELSE IF Len(w.len) = 0 THEN "" ELSE Garbled

StrFaults(w) == Len(w.len) > 0 /\ Len(w.ptr) = 0

\* The slice behind the words w: the first elements of the pointer's array.
\* With a length beyond that array (and with any at the nil pointer) a load
\* of an element faults or gets what is no Middleware, and only the length
\* can be used.
SeqOf(w) ==
    IF Len(w.len) <= Len(w.ptr) THEN SubSeq(w.ptr, 1, Len(w.len)) ELSE w.len

SeqFaults(w) == Len(w.len) > Len(w.ptr)

\* The Conditions as loads see them while store st is under way.
Seen(hp, st) ==
    IF st.a = 0 THEN hp
    ELSE IF st.field = "middlewares"
    THEN [hp EXCEPT ![st.a].middlewares = SeqOf(Words(@, st.seq, st.first))]
    ELSE [hp EXCEPT ![st.a][st.field] = StrOf(Words(@, st.str, st.first))]

\* g.conditions as a range statement sees it while store st is under way.
\* append has copied the elements to the new array before the store: with
\* the new pointer and the old length the range goes over the Conditions
\* registered before; with the old pointer and the new length it goes on to
\* read, past the end of the old array, what is no *Condition (written 0).
SeenConditions(gconds, st) ==
    IF st.field = "conditions" /\ st.first = "len" THEN Append(gconds, 0) ELSE gconds

----------------------------------------------------------------------------
(* Gag.Serve, load by load *)

\* The locals of a call of Serve: the line at it stands at, the slice the
\* running range loop goes over and its index k, the routes configureHandler
\* has added to its mux, and what configureMuxHandlers has loaded.
NotServing == [conds |-> <<>>, k |-> 0, routes |-> <<>>, at |-> "", loc |-> NoLoc]

\* What a call of Serve reads and writes of the Gag, together with its locals.
S == [phase |-> phase, serveErr |-> serveErr, listener |-> listener, mux |-> mux,
      srv |-> srv]

\* The body of the loop of validateConditions as it would be were only the
\* first Condition looked at.
validateFirstCondition(hp, conds, k) ==
    IF k = 1 /\ hp[conds[k]].path = "" THEN "path cannot be \"\"" ELSE ""

\* validateConditions, the body of its loop for the k-th Condition of the
\* slice: the error text, "" to go on. Only the path is looked at.
validateConditions(hp, conds, k) ==
    IF hp[conds[k]].path = "" THEN "path cannot be \"\"" ELSE ""

\* The loop of validateConditions has come to the end of the slice: nil is
\* returned and Serve calls listenHTTP.
validated(s) ==
    IF s.srv.k > Len(s.srv.conds)
    THEN [s EXCEPT !.phase = "listen", !.srv = [NotServing EXCEPT !.at = "31"]]
    ELSE s

\* The loop of configureHandler has come to the end of the slice: g.mux = mux,
\* and http.Serve(g.l, g.mux) accepts connections.
configured(s) ==
    IF s.srv.k > Len(s.srv.conds)
    THEN [s EXCEPT !.mux = s.srv.routes, !.phase = "serving", !.srv = NotServing]
    ELSE s

\* configureMuxHandlers(c) for the Condition c at address a, and the
\* mux.Handle(c.path, ..) of configureHandler that follows it, up to and
\* with the next load from c: lines 119 and 120 test c.middlewares and
\* c.handlerFunc, 121 loads the chain (121r) and the func (121a) that wrap
\* gets, 181 the func used unwrapped, 241 the path of the inner route, 109
\* the path of the outer route and 110 the path once more, for the log.
configureMuxHandlers(s, c, a) ==
    LET loc == s.srv.loc IN
    CASE s.srv.at = "119" ->
           [s EXCEPT !.srv.loc.wrapped = Len(c.middlewares) > 0, !.srv.at = "120"]
      [] s.srv.at = "120" ->
           [s EXCEPT !.srv.loc.isFunc = c.handlerFunc # "",
                     !.srv.at = IF loc.wrapped THEN "121r"
                                ELSE IF c.handlerFunc # "" THEN "181" ELSE "241"]
      [] s.srv.at = "121r" ->
           [s EXCEPT !.srv.loc.mws = c.middlewares,
                     !.srv.at = IF loc.isFunc THEN "121a" ELSE "241"]
      [] s.srv.at \in {"121a", "181"} ->
           [s EXCEPT !.srv.loc.f = c.handlerFunc, !.srv.at = "241"]
      [] s.srv.at = "241" ->
           [s EXCEPT !.srv.loc.inner = c.path, !.srv.at = "109"]
      [] s.srv.at = "109" ->
           [s EXCEPT !.srv.routes = Append(@, [path |-> c.path, inner |-> loc.inner,
                                               c |-> a, h |-> handlerOf(loc, a)]),
                     !.srv.at = "110"]
      [] OTHER ->
           configured([s EXCEPT !.srv.k = @ + 1, !.srv.loc = NoLoc, !.srv.at = "119"])

\* The goroutine of Serve panics: Serve does not return, and its caller makes
\* no further call.
panicked(s) == [s EXCEPT !.phase = "panicked", !.srv = NotServing]

\* Serve stands at a load that reads the bytes of c.path (HandleFunc at 241
\* and Handle at 109 parse them, Sprintf at 110 copies them) or the elements
\* of c.middlewares (wrap, called at 121 with a copy of the slice, goes over
\* them) while the store st to that field of that Condition is under way,
\* and the words it gets make it read at nil or past the end.
ServeFaults(s, hp, st) ==
    /\ s.phase = "configure"
    /\ st.a # 0
    /\ s.srv.at \in {"121r", "241", "109", "110"}
    /\ s.srv.conds[s.srv.k] = st.a
    /\ \/ /\ st.field = "path"
          /\ s.srv.at \in {"241", "109", "110"}
          /\ StrFaults(Words(hp[st.a].path, st.str, st.first))
       \/ /\ st.field = "middlewares"
          /\ s.srv.at = "121r"
          /\ SeqFaults(Words(hp[st.a].middlewares, st.seq, st.first))

\* The next step of Serve, by the line it stands at, while store st is under
\* way (NoStore when none is): the call; the range of validateConditions
\* loads g.conditions (96); one turn of its loop (97), which looks at the
\* length of c.path only; net.Listen, which may fail (31); g.l = l (41); the
\* range of configureHandler loads g.conditions anew (107); one load of
\* configureMuxHandlers or of configureHandler. Reading through an element
\* of the slice that is no *Condition panics, and so does a load that
\* faults. (The length of g.conditions logged at 105 has no effect.)
serveStep(s, hp, gconds, st, listenOk) ==
    CASE s.phase \in {"config", "failed"} ->
           [s EXCEPT !.phase = "validate", !.serveErr = "",
                     !.srv = [NotServing EXCEPT !.at = "96"]]
      [] s.phase = "validate" /\ s.srv.at = "96" ->
           validated([s EXCEPT !.srv.conds = SeenConditions(gconds, st),
                               !.srv.k = 1, !.srv.at = "97"])
      [] /\ s.phase \in {"validate", "configure"}
         /\ s.srv.at \notin {"96", "107"}
         /\ s.srv.conds[s.srv.k] = 0 ->
           panicked(s)
      [] ServeFaults(s, hp, st) ->
           panicked(s)
      [] s.phase = "validate" /\ s.srv.at = "97" ->
           LET err == validateConditions(Seen(hp, st), s.srv.conds, s.srv.k) IN
           IF err # ""
           THEN [s EXCEPT !.phase = "failed", !.serveErr = err, !.srv = NotServing]
           ELSE validated([s EXCEPT !.srv.k = @ + 1])
      [] s.phase = "listen" /\ s.srv.at = "31" ->
           IF ~listenOk
           THEN [s EXCEPT !.phase = "failed", !.serveErr = "listen", !.srv = NotServing]
           ELSE [s EXCEPT !.srv.at = "41"]
      [] s.phase = "listen" /\ s.srv.at = "41" ->
           [s EXCEPT !.listener = TRUE, !.phase = "configure", !.srv.at = "107"]
      [] s.phase = "configure" /\ s.srv.at = "107" ->
           configured([s EXCEPT !.srv.conds = SeenConditions(gconds, st),
                                !.srv.k = 1, !.srv.at = "119"])
      [] s.phase = "configure" /\ s.srv.at \notin {"107", ""} ->
           configureMuxHandlers(s, Seen(hp, st)[s.srv.conds[s.srv.k]],
                                s.srv.conds[s.srv.k])
      [] OTHER -> s

\* Serve from s on until it serves or returns, nothing writing meanwhile what
\* it reads.
RECURSIVE RunServe(_, _, _, _)
RunServe(s, hp, gconds, listenOk) ==
    IF s.phase \in {"serving", "failed", "panicked"} THEN s
    ELSE RunServe(serveStep(s, hp, gconds, NoStore, listenOk), hp, gconds, listenOk)

SettleServe(s, listenOk) ==
    IF Racing THEN s ELSE RunServe(s, heap, conditions, listenOk)

ServeTo(s) ==
    /\ phase' = s.phase
    /\ serveErr' = s.serveErr
    /\ listener' = s.listener
    /\ mux' = s.mux
    /\ srv' = s.srv
    /\ UNCHANGED <<heap, conditions, backend, finalized, callsLeft, store, inflight>>

\* Serve is called: for the first time, or again after it returned an error.
\* While it runs and while it serves, its caller makes no further call.
Serve(listenOk) ==
    /\ phase \in {"config", "failed"}
    /\ ServeTo(SettleServe(serveStep(S, heap, conditions, store, listenOk), listenOk))

\* The running call of Serve goes on.
ServeGoesOn(listenOk) ==
    /\ phase \in {"validate", "listen", "configure"}
    /\ ServeTo(SettleServe(serveStep(S, heap, conditions, store, listenOk), listenOk))

----------------------------------------------------------------------------
(* The handler of a request, step by step *)

\* http.Serve runs the handler of each connection in a goroutine of its own.
\* What a goroutine holds: the request r and its ResponseWriter (in st), the
\* route the outer router chose, the layer n of h it stands in, values and
\* ok of the dispatch closure, what the proxy closure has loaded from
\* c.routeRequest (rr) and its locals client, req (q) and resp (be). pc is
\* where it stands, resp what has gone out to the caller, cancelAt where it
\* stood when the server cancelled r.Context(). overlapped tells that some
\* step of it was taken while another goroutine was handling a request.
Idle ==
    [pc |-> "idle", r |-> NoRequest,
     st |-> [w |-> NewResponse, trace |-> <<>>, px |-> NoProxy, r |-> NoRequest],
     route |-> 0, n |-> 0,
     values |-> <<>>, ok |-> FALSE,
     rr |-> NilRouteRequest,
     client |-> [Timeout |-> 0],
     q |-> NewRequestWithContext(Context(NoRequest), "", "", NilBody),
     be |-> okBackend, resp |-> NewResponse, cancelAt |-> "", overlapped |-> FALSE]

\* The lines of the dispatch closure and of the proxy closure at which a
\* field of the Condition is loaded.
ClosurePcs == {"242a", "242b", "242c", "243", "244", "245k", "245v", "251", "252",
               "253k", "253v"}
ProxyPcs == {"184", "185", "188m", "188u"}
LoadPcs == ClosurePcs \cup ProxyPcs

\* The outer router has returned: the response goes out.
Returned(sl) == [sl EXCEPT !.resp = Finish(sl.st.w), !.pc = "done"]

\* The handler at layer n of h has returned to its caller: the middleware
\* that wraps it goes on, or, from the outermost layer and on a panic, the
\* routers return.
Unwind(sl, h) ==
    IF sl.n >= Len(h) \/ sl.st.w.panicked THEN Returned(sl)
    ELSE [sl EXCEPT !.n = @ + 1, !.pc = "leave"]

\* gorilla/mux on templates without variables: a route matches its own path.
PathMatches(template, path) == template = path

\* http.Serve has accepted the connection of r and started its goroutine:
\* Router.ServeHTTP of the outer router takes the first route whose path
\* matches, the inner router of that route matches the path it was given at
\* line 241, and the dispatch closure is called; a router no route of which
\* matches answers with http.NotFound.
ServeHTTP(r, mx) ==
    LET sl == [Idle EXCEPT !.r = r,
                           !.st = [w |-> NewResponse, trace |-> <<>>, px |-> NoProxy,
                                   r |-> r]]
        hits == {k \in 1..Len(mx) : PathMatches(mx[k].path, r.path)}
        k == CHOOSE x \in hits : \A y \in hits : x <= y
    IN IF hits = {} THEN Returned([sl EXCEPT !.st = NotFound(@)])
       ELSE IF ~PathMatches(mx[k].inner, r.path)
       THEN Returned([sl EXCEPT !.route = k, !.st = NotFound(@)])
       ELSE [sl EXCEPT !.route = k, !.pc = "242a"]

hasHeaderValue(value, values) ==
    \E i \in 1..Len(values) : values[i] = value

\* h.ServeHTTP(w, r), called by the dispatch closure over the Condition at a.
CallHandler(sl, a, h) ==
    [sl EXCEPT !.st.trace = Append(@, <<"serve", ToString(a)>>),
               !.n = Len(h),
               !.pc = "enter"]

\* The dispatch closure as it would be were the header tests left out.
dispatchMethodOnly(sl, c, a, h) ==
    CASE sl.pc = "242a" -> [sl EXCEPT !.pc = IF c.httpMethod # "" THEN "242b" ELSE "242c"]
      [] sl.pc = "242b" ->
           IF c.httpMethod = sl.r.method THEN CallHandler(sl, a, h)
           ELSE [sl EXCEPT !.pc = "242c"]
      [] OTHER -> IF c.httpMethod = "" THEN CallHandler(sl, a, h) ELSE Returned(sl)

\* The dispatch closure (the nest of ifs at 242-260) over the Condition c at
\* address a, from line pc up to and with its next load from c. Line 242
\* loads c.httpMethod up to three times (a, b, c); 243 and 251 load c.header;
\* 244 and 252 load c.headerValue for the nil test; 245 and 253 load it again
\* for its Key (k), with which r.Header is looked up, and for its Value (v).
\* No branch writes anything when it does not call h.ServeHTTP.
dispatch(sl, c, a, h) ==
    LET hdr == Header(sl.r.lines) IN
    CASE sl.pc = "242a" -> [sl EXCEPT !.pc = IF c.httpMethod # "" THEN "242b" ELSE "242c"]
      [] sl.pc = "242b" ->
           [sl EXCEPT !.pc = IF c.httpMethod = sl.r.method THEN "243" ELSE "242c"]
      [] sl.pc = "242c" ->
           IF c.httpMethod = "" THEN [sl EXCEPT !.pc = "243"] ELSE Returned(sl)
      [] sl.pc = "243" ->
           [sl EXCEPT !.pc = IF c.header \in DOMAIN hdr THEN "244" ELSE "251"]
      [] sl.pc = "244" ->
           IF c.headerValue.set THEN [sl EXCEPT !.pc = "245k"] ELSE CallHandler(sl, a, h)
      [] sl.pc = "245k" ->
           [sl EXCEPT !.values = Lookup(hdr, c.headerValue.Key),
                      !.ok = c.headerValue.Key \in DOMAIN hdr,
                      !.pc = "245v"]
      [] sl.pc = "245v" ->
           IF hasHeaderValue(c.headerValue.Value, sl.values) /\ sl.ok
           THEN CallHandler(sl, a, h) ELSE Returned(sl)
      [] sl.pc = "251" ->
           IF c.header = "" THEN [sl EXCEPT !.pc = "252"] ELSE Returned(sl)
      [] sl.pc = "252" ->
           IF c.headerValue.set THEN [sl EXCEPT !.pc = "253k"] ELSE CallHandler(sl, a, h)
      [] sl.pc = "253k" ->
           [sl EXCEPT !.values = Lookup(hdr, c.headerValue.Key), !.pc = "253v"]
      [] OTHER ->
           IF hasHeaderValue(c.headerValue.Value, sl.values)
           THEN CallHandler(sl, a, h) ELSE Returned(sl)

\* The proxy closure of configureMuxHandlers (the same body with and without
\* middlewares) over the Condition c, from line pc up to and with its next
\* load of c.routeRequest: 184 for the Timeout of the client, 185 for
\* PassRequestBody (with it r.Body.Close() is deferred), 188 (213 without the
\* body) for HttpMethod (m) and for Url (u), with which the outbound request
\* is built. On a nil c.routeRequest the load panics.
proxyLoads(sl, c, h) ==
    LET rr == c.routeRequest
        panic == Unwind([sl EXCEPT !.st = RunDeferred(Panic(@, "nil routeRequest"))], h)
    IN IF ~rr.set THEN panic
       ELSE CASE sl.pc = "184" ->
                   [sl EXCEPT !.rr = [NilRouteRequest EXCEPT !.set = TRUE,
                                                             !.Timeout = rr.Timeout],
                              !.client = [Timeout |-> rr.Timeout],
                              !.pc = "185"]
              [] sl.pc = "185" ->
                   [sl EXCEPT !.rr.PassRequestBody = rr.PassRequestBody,
                              !.st = IF rr.PassRequestBody THEN Defer(@, "r.Body") ELSE @,
                              !.pc = "188m"]
              [] sl.pc = "188m" ->
                   [sl EXCEPT !.rr.HttpMethod = rr.HttpMethod, !.pc = "188u"]
              [] OTHER ->
                   LET got == [sl.rr EXCEPT !.Url = rr.Url] IN
                   IF NewRequestError(got) # <<>>
                   THEN Unwind([sl EXCEPT
                            !.rr = got,
                            !.st = RunDeferred(ProxyFail(@, "newRequestError",
                                                         NewRequestError(got)))], h)
                   ELSE [sl EXCEPT !.rr = got,
                                   !.q = BuildOutbound(sl.r, got),
                                   !.pc = "do"]

\* h.ServeHTTP at layer n: a middleware runs its part before the handler it
\* wraps and calls it; the handler func runs (a nil func panics); the proxy
\* closure is entered; an empty ServeMux answers with http.NotFound.
enterLayer(sl, h) ==
    LET l == h[sl.n] IN
    CASE l.kind = "mw" ->
           [sl EXCEPT !.st.trace = Append(@, <<"before", l.name>>), !.n = @ - 1]
      [] l.kind = "func" ->
           IF l.name = ""
           THEN Unwind([sl EXCEPT !.st = Panic(@, "nil handlerFunc")], h)
           ELSE Unwind([sl EXCEPT !.st = sampleHandler(@)], h)
      [] l.kind = "proxy" -> [sl EXCEPT !.pc = "184"]
      [] OTHER -> Unwind([sl EXCEPT !.st = NotFound(@)], h)

\* The server finds out that the caller has gone by reading from the
\* connection, which it does once the request's body has been read to its
\* end: at once when there is no body, and when the transport has sent the
\* body on.
Detectable(sl) == sl.r.body = <<>> \/ sl.st.px.inboundRead

MayCancel(sl) ==
    /\ sl.r.gone
    /\ sl.cancelAt = ""
    /\ Detectable(sl)
    /\ sl.pc \notin {"idle", "done", "hung"}

\* resp, err := client.Do(req), up to the request being written, against a
\* backend that behaves as be for this call.
proxyDo(sl, be, h) ==
    LET d == DoSend(sl.q, be, CtxDone(sl.q.ctx, sl.cancelAt))
        s1 == [sl.st EXCEPT !.px.outbound = Append(@, sl.q)]
    IN IF d.kind = "err"
       THEN Unwind([sl EXCEPT !.st = RunDeferred(ProxyFail(s1, "doError", d.err)),
                              !.be = be], h)
       ELSE [sl EXCEPT !.st = [s1 EXCEPT !.px.inboundRead = sl.q.body.set],
                       !.be = be, !.pc = "await"]

\* client.Do waits for the answer and returns; with nothing to wait for but
\* a cancellation it stays where it is.
proxyAwait(sl, h) ==
    LET d == DoAwait(sl.client.Timeout, sl.q, sl.be, CtxDone(sl.q.ctx, sl.cancelAt),
                     sl.q.ctx.cancels /\ MayCancel(sl))
    IN CASE d.kind = "wait" -> sl
         [] d.kind = "hang" ->
              [sl EXCEPT !.st.px.hung = TRUE,
                         !.st.trace = Append(@, <<"proxy", "hung">>),
                         !.resp = sl.st.w, !.pc = "hung"]
         [] d.kind = "err" ->
              Unwind([sl EXCEPT !.st = RunDeferred(ProxyFail(@, "doError", d.err))], h)
         [] OTHER ->
              [sl EXCEPT !.st = Defer([@ EXCEPT !.px.respObtained = TRUE], "resp.Body"),
                         !.pc = "read"]

\* What io.ReadAll(resp.Body) can return for the response got: the bytes, or
\* the error the backend's body ends with. The closure does not look at the
\* context; once the context is done the transport may end the read with the
\* context's error, unless the body is there already: a response without a
\* body has nothing to read, and a body may have arrived before.
ReadOutcomes(got, done) ==
    IF done /\ ~(got.kind = "ok" /\ got.body = <<>>)
    THEN {ReadAll(got), [err |-> <<"context canceled">>, bytes |-> <<>>]}
    ELSE {ReadAll(got)}

\* bodyBytes, err := io.ReadAll(resp.Body) has returned rd for the response
\* got: the writes that follow it, then the return.
proxyRead(sl, got, rd, h) ==
    Unwind([sl EXCEPT
        !.st = RunDeferred(IF rd.err # <<>> THEN ProxyFail(@, "readError", rd.err)
                           ELSE Relay(@, got.status, rd.bytes))], h)

\* The handler the middleware at layer n wrapped has returned: the
\* middleware runs its part after it and returns.
leaveLayer(sl, h) ==
    Unwind([sl EXCEPT !.st.trace = Append(@, <<"after", h[sl.n].name>>)], h)

\* The handler has panicked in the dispatch closure: the routers unwind.
tornLoad(sl) == Returned([sl EXCEPT !.st = Panic(@, "torn load")])

\* The goroutine stands at a load that reads the bytes of the string field
\* of its Condition that store st is under way to, and the words it gets
\* make it read at nil: the comparison of c.httpMethod with r.Method (242b),
\* which reads the bytes when the lengths agree, and the lookup of c.header
\* in r.Header (243), which reads them when the map has an entry.
LoadFaults(sl, hp, mx, st) ==
    /\ st.a # 0
    /\ sl.pc \in {"242b", "243"}
    /\ mx[sl.route].c = st.a
    /\ \/ /\ st.field = "httpMethod"
          /\ sl.pc = "242b"
          /\ LET w == Words(hp[st.a].httpMethod, st.str, st.first)
             IN StrFaults(w) /\ Len(w.len) = Len(sl.r.method)
       \/ /\ st.field = "header"
          /\ sl.pc = "243"
          /\ sl.r.lines # <<>>
          /\ StrFaults(Words(hp[st.a].header, st.str, st.first))

\* The next load of the goroutine from the Condition of its route, while
\* store st is under way (NoStore when none is). The tests against "" look
\* at the length only.
load(sl, hp, mx, st) ==
    LET rt == mx[sl.route] IN
    IF LoadFaults(sl, hp, mx, st) THEN tornLoad(sl)
    ELSE IF sl.pc \in ClosurePcs THEN dispatch(sl, Seen(hp, st)[rt.c], rt.c, rt.h)
    ELSE proxyLoads(sl, hp[rt.c], rt.h)

\* The goroutine from sl on through the loads that follow one another,
\* nothing writing meanwhile what they read.
RECURSIVE RunLoads(_, _, _)
RunLoads(sl, hp, mx) ==
    IF sl.pc \in LoadPcs THEN RunLoads(load(sl, hp, mx, NoStore), hp, mx) ELSE sl

Settle(sl) == IF Racing THEN sl ELSE RunLoads(sl, heap, mux)

\* Another goroutine than i is handling a request.
Others(i) ==
    \E j \in DOMAIN inflight : j # i /\ inflight[j].pc \notin {"idle", "done", "hung"}

\* Goroutine i moves on; nothing but its own locals changes.
Step(i, slot) ==
    /\ inflight' = [inflight EXCEPT ![i] =
                        IF slot.pc = "idle" THEN slot
                        ELSE [slot EXCEPT !.overlapped = @ \/ Others(i)]]
    /\ UNCHANGED <<heap, conditions, phase, serveErr, listener, mux, srv, backend,
                   finalized, callsLeft, store>>

\* The local resp of the proxy closure, were it one variable shared by all
\* calls of the closure: the response of the first goroutine that holds one.
SharedResp(fl, i) ==
    LET holders == {j \in DOMAIN fl : fl[j].pc = "read"}
    IN fl[CHOOSE j \in holders : \A k \in holders : j <= k].be

\* The local resp of the proxy closure in goroutine i.
LocalResp(fl, i) == fl[i].be

\* http.Serve accepts a connection and starts a goroutine for its request.
Accept(i, r) ==
    /\ phase = "serving"
    /\ listener
    /\ inflight[i].pc = "idle"
    /\ Step(i, Settle(ServeHTTP(r, mux)))

\* The dispatch closure or the proxy closure loads a field of the Condition.
Load(i) ==
    /\ inflight[i].pc \in LoadPcs
    /\ Step(i, Settle(load(inflight[i], heap, mux, store)))

EnterLayer(i) ==
    /\ inflight[i].pc = "enter"
    /\ Step(i, Settle(enterLayer(inflight[i], mux[inflight[i].route].h)))

ProxyDo(i, be) ==
    /\ inflight[i].pc = "do"
    /\ Step(i, proxyDo(inflight[i], be, mux[inflight[i].route].h))

ProxyAwait(i) ==
    /\ inflight[i].pc = "await"
    /\ proxyAwait(inflight[i], mux[inflight[i].route].h) # inflight[i]
    /\ Step(i, proxyAwait(inflight[i], mux[inflight[i].route].h))

ProxyRead(i) ==
    /\ inflight[i].pc = "read"
    /\ \E rd \in ReadOutcomes(LocalResp(inflight, i),
                              CtxDone(inflight[i].q.ctx, inflight[i].cancelAt)) :
          Step(i, proxyRead(inflight[i], LocalResp(inflight, i), rd,
                            mux[inflight[i].route].h))

LeaveLayer(i) ==
    /\ inflight[i].pc = "leave"
    /\ Step(i, leaveLayer(inflight[i], mux[inflight[i].route].h))

\* The caller of the request goroutine i handles has closed its connection
\* and the server has found it out: r.Context() is cancelled.
CallerGone(i) ==
    /\ MayCancel(inflight[i])
    /\ Step(i, [inflight[i] EXCEPT !.cancelAt = inflight[i].pc])

\* The goroutine ends.
Done(i) ==
    /\ inflight[i].pc = "done"
    /\ Step(i, Idle)

\* A goroutine blocked in client.Do for good takes no further step: it is
\* followed no longer, and http.Serve goes on with other connections.
Park(i) ==
    /\ inflight[i].pc = "hung"
    /\ Step(i, Idle)

\* The next step of a goroutine that handles its request with nothing else
\* going on and its caller staying, the backend behaving as be for its call.
goStep(sl, hp, mx, be) ==
    LET h == mx[sl.route].h IN
    CASE sl.pc \in LoadPcs -> load(sl, hp, mx, NoStore)
      [] sl.pc = "enter" -> enterLayer(sl, h)
      [] sl.pc = "do" -> proxyDo(sl, be, h)
      [] sl.pc = "await" -> proxyAwait(sl, h)
      [] sl.pc = "read" -> proxyRead(sl, sl.be, ReadAll(sl.be), h)
      [] sl.pc = "leave" -> leaveLayer(sl, h)
      [] OTHER -> sl

\* The handler from sl on to its return (or to where it stays for good),
\* alone.
RECURSIVE RunAlone(_, _, _, _)
RunAlone(sl, hp, mx, be) ==
    IF sl.pc \in {"done", "hung"} THEN sl
    ELSE RunAlone(goStep(sl, hp, mx, be), hp, mx, be)

\* The registration calls are over, each Condition registered by one call of
\* Route or HandlerFunc, Serve has not been called, and the one goroutine
\* followed handles no request.
Init ==
    /\ heap \in Registries
    /\ conditions = [k \in 1..Len(heap) |-> k]
    /\ finalized = [k \in 1..Len(heap) |-> 1]
    /\ callsLeft = 0
    /\ store = NoStore
    /\ inflight = <<Idle>>
    /\ phase = "config"
    /\ serveErr = ""
    /\ listener = FALSE
    /\ mux = <<>>
    /\ srv = NotServing
    /\ backend = okBackend

\* What the caller of the first goroutine has got, once its handler has
\* returned or is blocked for good: the request, the response, what ran
\* while it was handled, what the proxy closure did, and where the handler
\* stood when the request's context was cancelled.
Answered == inflight[1].pc \in {"done", "hung"}
req == IF Answered THEN inflight[1].r ELSE NoRequest
resp == IF Answered THEN inflight[1].resp ELSE NewResponse
trace == IF Answered THEN inflight[1].st.trace ELSE <<>>
proxy == IF Answered THEN inflight[1].st.px ELSE NoProxy
cancelled == IF Answered THEN inflight[1].cancelAt ELSE ""

Next ==
    \/ \E ok \in BOOLEAN : Serve(ok)
    \/ \E i \in DOMAIN inflight, r \in Requests : Accept(i, r)
    \/ \E i \in DOMAIN inflight : EnterLayer(i)
    \/ \E i \in DOMAIN inflight : ProxyDo(i, backend)
    \/ \E i \in DOMAIN inflight : ProxyAwait(i)
    \/ \E i \in DOMAIN inflight : ProxyRead(i)
    \/ \E i \in DOMAIN inflight : LeaveLayer(i)
    \/ \E i \in DOMAIN inflight : Done(i)

Spec == Init /\ [][Next]_vars

----------------------------------------------------------------------------
(* What the claims speak of *)

Handled == req # NoRequest

Registered(k) == heap[conditions[k]]

\* The request's path is that of the k-th registered Condition, and of no other.
OnlyOnPath(k) ==
    /\ Registered(k).path = req.path
    /\ \A j \in 1..Len(conditions) : Registered(j).path = req.path => j = k

\* HTTP header names are case-insensitive: what the request carries.
Carries(name) ==
    \E i \in 1..Len(req.lines) :
        CanonicalMIMEHeaderKey(req.lines[i][1]) = CanonicalMIMEHeaderKey(name)

CarriesValue(name, value) ==
    \E i \in 1..Len(req.lines) :
        /\ CanonicalMIMEHeaderKey(req.lines[i][1]) = CanonicalMIMEHeaderKey(name)
        /\ req.lines[i][2] = value

MethodOk(c) == c.httpMethod = "" \/ c.httpMethod = req.method
HeaderOk(c) == c.header = "" \/ Carries(c.header)
ValueOk(c) == ~c.headerValue.set \/ CarriesValue(c.headerValue.Key, c.headerValue.Value)

TerminalRuns == {i \in 1..Len(trace) : trace[i][1] \in {"handler", "proxy", "panic"}}
MiddlewareRuns == {i \in 1..Len(trace) : trace[i][1] \in {"before", "after"}}

PlainText == "text/plain; charset=utf-8"

ErrorResponse(status, body) ==
    /\ resp.status = status
    /\ resp.contentType = PlainText
    /\ resp.body = body
    /\ TerminalRuns = {}

----------------------------------------------------------------------------
(* C1 - C6: the responses of the dispatch closure *)

\* C1: a request on the path of a Condition whose method is set, with another
\* method, gets 405, text/plain and "405 method(<method>) not allowed",
\* whatever its headers, and the terminal action does not run.
C1_WrongMethod405 ==
    \A k \in 1..Len(conditions) :
        LET c == Registered(k) IN
        (Handled /\ OnlyOnPath(k) /\ c.httpMethod # "" /\ c.httpMethod # req.method)
            => ErrorResponse(405, <<"405 method(", req.method, ") not allowed">>)

\* C2: a request that passes the method check of a Condition with a required
\* header and does not carry that header gets 400, text/plain and
\* "400 header(<name>) not provided", and the terminal action does not run.
C2_MissingHeader400 ==
    \A k \in 1..Len(conditions) :
        LET c == Registered(k) IN
        (Handled /\ OnlyOnPath(k) /\ MethodOk(c) /\ c.header # "" /\ ~Carries(c.header))
            => ErrorResponse(400, <<"400 header(", c.header, ") not provided">>)

\* C3: a request that passes the method and header-presence checks of a
\* Condition with a required (header, value) pair, and lacks that header or
\* has no value of it equal to the expected one, gets 400 and
\* "400 header(<name>) with value(<value>) not provided", and the terminal
\* action does not run.
C3_WrongHeaderValue400 ==
    \A k \in 1..Len(conditions) :
        LET c == Registered(k) IN
        (Handled /\ OnlyOnPath(k) /\ MethodOk(c) /\ HeaderOk(c) /\ c.headerValue.set
                 /\ ~CarriesValue(c.headerValue.Key, c.headerValue.Value))
            => ErrorResponse(400, <<"400 header(", c.headerValue.Key, ") with value(",
                                    c.headerValue.Value, ") not provided">>)

\* C4: the reported mismatch follows method > header presence > header value:
\* with a required header and a required pair on another header, a request
\* with the right method lacking the required header is told of that header
\* only, and a request with the wrong method gets the 405 response.
C4_MismatchPrecedence ==
    \A k \in 1..Len(conditions) :
        LET c == Registered(k) IN
        (Handled /\ OnlyOnPath(k) /\ c.header # "" /\ c.headerValue.set
                 /\ CanonicalMIMEHeaderKey(c.headerValue.Key) # CanonicalMIMEHeaderKey(c.header))
            => /\ (MethodOk(c) /\ ~Carries(c.header))
                    => ErrorResponse(400, <<"400 header(", c.header, ") not provided">>)
               /\ ~MethodOk(c)
                    => ErrorResponse(405, <<"405 method(", req.method, ") not allowed">>)

\* C5: a request on a Condition's path all of whose set predicates hold
\* (method unset or equal, required header unset or present, required pair
\* unset or one value equal) reaches the Condition's terminal action, once.
C5_MatchDispatchesOnce ==
    \A k \in 1..Len(conditions) :
        LET c == Registered(k) IN
        (Handled /\ OnlyOnPath(k) /\ MethodOk(c) /\ HeaderOk(c) /\ ValueOk(c))
            => Cardinality(TerminalRuns) = 1

\* C6: a request on a registered path gets exactly one response: the terminal
\* action runs, or an explicit 405/400 with Content-Type and body is written;
\* never nothing, and never two status lines.
C6_ExactlyOneResponse ==
    \A k \in 1..Len(conditions) :
        (Handled /\ OnlyOnPath(k))
            => /\ \/ Cardinality(TerminalRuns) = 1
                  \/ /\ resp.status \in {400, 405}
                     /\ resp.contentType # ""
                     /\ resp.body # <<>>
               /\ resp.headerCalls <= 1

----------------------------------------------------------------------------
(* C7: the middleware chain *)

\* C7: the first-registered middleware is the innermost wrapper: a served
\* request enters the middlewares in the reverse of registration order,
\* reaches the terminal action, and leaves them in registration order; with
\* no middleware the terminal action is called directly.
C7_MiddlewareOrder ==
    \A k \in 1..Len(conditions) :
        (Handled /\ OnlyOnPath(k) /\ TerminalRuns # {} /\ ~resp.panicked)
            => LET mws == Registered(k).middlewares
                   n == Len(mws)
               IN /\ Len(trace) = 2 * n + 2
                  /\ trace[1][1] = "serve"
                  /\ \A i \in 1..n : trace[1 + i] = <<"before", mws[n + 1 - i]>>
                  /\ trace[n + 2][1] \in {"handler", "proxy"}
                  /\ \A i \in 1..n : trace[n + 2 + i] = <<"after", mws[i]>>

\* The chain [A, B] around sampleHandler has served a request.
C7_Witness ==
    /\ Handled
    /\ Len(conditions) = 1
    /\ Registered(1).middlewares = <<"A", "B">>
    /\ trace = <<<<"serve", "1">>, <<"before", "B">>, <<"before", "A">>,
                 <<"handler", "sampleHandler">>, <<"after", "A">>, <<"after", "B">>>>

----------------------------------------------------------------------------
(* C8: several Conditions on one path *)

\* C8: of the Conditions registered on the request's path, the first whose
\* predicates all hold serves the request, also when it is not the first
\* one registered on that path.
C8_LaterConditionServes ==
    \A k \in 1..Len(conditions) :
        LET earlier == {j \in 1..(k - 1) : Registered(j).path = req.path}
            Matched(c) == MethodOk(c) /\ HeaderOk(c) /\ ValueOk(c)
        IN (Handled /\ Registered(k).path = req.path /\ earlier # {}
                    /\ Matched(Registered(k))
                    /\ \A j \in earlier : ~Matched(Registered(j)))
               => \E i \in 1..Len(trace) : trace[i] = <<"serve", ToString(conditions[k])>>

----------------------------------------------------------------------------
(* C9, C10: what Serve validates *)

EmptyPathRegistered == \E k \in 1..Len(conditions) : Registered(k).path = ""

\* C9: with an empty path in the registry Serve returns the path error, no
\* listener is created and no request is ever accepted; with every path
\* non-empty Serve goes on to listen, so that it serves or fails on the
\* listener alone.
C9_ServeValidatesPaths ==
    /\ EmptyPathRegistered
          => /\ phase # "serving" /\ ~listener /\ mux = <<>> /\ req = NoRequest
             /\ phase = "failed" => serveErr = "path cannot be \"\""
    /\ (~EmptyPathRegistered /\ phase = "failed") => serveErr = "listen"
    /\ phase = "serving" => listener /\ ~EmptyPathRegistered

\* Serve has refused a registry whose second Condition has the empty path.
C9_Witness ==
    /\ phase = "failed"
    /\ serveErr = "path cannot be \"\""
    /\ ~listener
    /\ Len(conditions) = 2
    /\ Registered(1).path = "/a"
    /\ Registered(2).path = ""

\* C10: a registered Condition with both a handler and a proxy target, or
\* with neither, makes Serve fail its validation, and serving does not start.
C10_ActionValidated ==
    (\E k \in 1..Len(conditions) :
        (Registered(k).handlerFunc # "") = Registered(k).routeRequest.set)
        => phase # "serving"

----------------------------------------------------------------------------
(* C11: header names *)

\* C11: header-name lookup is case-insensitive: a request that carries the
\* required header (and, for a required pair, the expected value of its
\* header) under any letter-casing passes the header checks of a Condition
\* that names the header under any letter-casing, and is served.
C11_HeaderNameAnyCase ==
    \A k \in 1..Len(conditions) :
        LET c == Registered(k) IN
        (Handled /\ OnlyOnPath(k) /\ MethodOk(c)
                 /\ (c.header # "" \/ c.headerValue.set)
                 /\ (c.header # "" => Carries(c.header))
                 /\ (c.headerValue.set
                        => CarriesValue(c.headerValue.Key, c.headerValue.Value)))
            => \E i \in 1..Len(trace) : trace[i][1] = "serve"

----------------------------------------------------------------------------
(* C18: the order within one request *)

\* C18: the predicates of a Condition are evaluated before any of its
\* middlewares or its terminal action runs: whatever runs, runs after the
\* closure has found the request to match, the middlewares are entered
\* before the terminal action, and for a request that fails a predicate
\* nothing of the Condition runs.
C18_MatcherThenChainThenAction ==
    \A k \in 1..Len(conditions) :
        LET c == Registered(k)
            ran == TerminalRuns \cup MiddlewareRuns
        IN (Handled /\ OnlyOnPath(k))
              => /\ ~(MethodOk(c) /\ HeaderOk(c) /\ ValueOk(c)) => ran = {}
                 /\ ran # {}
                      => /\ trace[1][1] = "serve"
                         /\ \A i \in ran : i > 1
                         /\ \A i \in MiddlewareRuns, j \in TerminalRuns :
                                (trace[i][1] = "before") <=> (i < j)

\* A request with the wrong method on a Condition with the chain [A, B]:
\* nothing ran.
C18_Witness ==
    /\ Handled
    /\ Len(conditions) = 1
    /\ Registered(1).middlewares = <<"A", "B">>
    /\ Registered(1).httpMethod = "POST"
    /\ req.path = "/a"
    /\ req.method = "GET"
    /\ trace = <<>>

----------------------------------------------------------------------------
(* The proxy closure against backends of every behaviour *)

TargetUrls == {"http://127.0.0.1:8081/demo", ":bad"}
TargetMethods == {"GET", "POST", "BAD METHOD"}
Timeouts == {0, 2}

RouteRequests ==
    [set : {TRUE}, Url : TargetUrls, HttpMethod : TargetMethods, Timeout : Timeouts,
     PassRequestBody : BOOLEAN]

\* Path("/a").Middlewares(..).Route(&RouteRequest{..}, g)
ProxyConditions ==
    {Cond("/a", "", "", NilHeaderValue, mws, "", rr) : mws \in Chains, rr \in RouteRequests}

\* The backend answers, refuses the connection, breaks off in the middle of
\* its body, or never answers.
Backends ==
    {[kind |-> "ok", status |-> sc, body |-> b, err |-> <<>>] :
        sc \in {200, 201, 404, 503}, b \in {<<>>, <<"{\"ok\":true}">>}}
    \cup {[kind |-> "doError", status |-> 0, body |-> <<>>,
           err |-> <<"dial tcp 127.0.0.1:8081: connect: connection refused">>],
          [kind |-> "readError", status |-> 200, body |-> <<"{\"ok\":">>,
           err |-> <<"unexpected EOF">>],
          [kind |-> "silent", status |-> 0, body |-> <<>>, err |-> <<>>]}

ProxyRequests ==
    [path : {"/a"}, method : Methods, lines : {<<>>},
     body : {<<>>, <<"{\"x\":1}">>}, gone : BOOLEAN]

\* One proxying Condition is registered and Serve has not been called.
InitProxy ==
    /\ heap \in {<<c>> : c \in ProxyConditions}
    /\ conditions = <<1>>
    /\ finalized = <<1>>
    /\ callsLeft = 0
    /\ store = NoStore
    /\ inflight = <<Idle>>
    /\ phase = "config"
    /\ serveErr = ""
    /\ listener = FALSE
    /\ mux = <<>>
    /\ srv = NotServing
    /\ backend \in Backends

NextProxy ==
    \/ \E ok \in BOOLEAN : Serve(ok)
    \/ \E i \in DOMAIN inflight, r \in ProxyRequests : Accept(i, r)
    \/ \E i \in DOMAIN inflight : EnterLayer(i)
    \/ \E i \in DOMAIN inflight : ProxyDo(i, backend)
    \/ \E i \in DOMAIN inflight : ProxyAwait(i)
    \/ \E i \in DOMAIN inflight : ProxyRead(i)
    \/ \E i \in DOMAIN inflight : LeaveLayer(i)
    \/ \E i \in DOMAIN inflight : CallerGone(i)
    \/ \E i \in DOMAIN inflight : Done(i)
    \/ \E i \in DOMAIN inflight : Park(i)

SpecProxy == InitProxy /\ [][NextProxy]_vars

\* The handled request went to the proxy closure of the k-th registered
\* Condition, whose RouteRequest is set.
Proxied(k) ==
    /\ Handled
    /\ OnlyOnPath(k)
    /\ MethodOk(Registered(k)) /\ HeaderOk(Registered(k)) /\ ValueOk(Registered(k))
    /\ Registered(k).handlerFunc = ""
    /\ Registered(k).routeRequest.set

Target(k) == Registered(k).routeRequest


\* The context of the handled request was cancelled before the proxy closure
\* had read the backend's answer.
CancelledInCall == cancelled \in {"enter", "do", "await", "read"}

----------------------------------------------------------------------------
(* C12: the relayed response *)

\* C12: when the proxy call succeeds (the outbound request is built, no
\* cancellation reaches the call, the backend answers and its body is read to the end) the
\* caller gets the backend's status, Content-Type application/json and the
\* backend's body unchanged, whatever the middleware chain.
C12_RelaysStatusAndBody ==
    \A k \in 1..Len(conditions) :
        (Proxied(k) /\ NewRequestError(Target(k)) = <<>> /\ ~CancelledInCall
                    /\ backend.kind = "ok")
            => /\ resp.status = backend.status
               /\ resp.contentType = "application/json"
               /\ resp.body = backend.body
               /\ resp.headerCalls = 1
               /\ resp.writeCalls = 1

\* A GET forwarded without its body, behind the chain [A, B], to a backend
\* answering 201 {"ok":true}.
C12_Witness ==
    /\ Proxied(1)
    /\ Registered(1).middlewares = <<"A", "B">>
    /\ ~Target(1).PassRequestBody
    /\ Target(1).HttpMethod = "GET"
    /\ backend.kind = "ok"
    /\ backend.status = 201
    /\ resp.status = 201
    /\ resp.body = <<"{\"ok\":true}">>

----------------------------------------------------------------------------
(* C13: the outbound request *)

\* C13: the outbound request carries the RouteRequest's Url and HttpMethod,
\* not the inbound method; with PassRequestBody its body is the inbound body
\* and its Content-Type is application/json; without, it has no body and the
\* inbound body is not read.
C13_OutboundRequest ==
    \A k \in 1..Len(conditions) :
        (Proxied(k) /\ NewRequestError(Target(k)) = <<>>)
            => /\ Len(proxy.outbound) = 1
               /\ LET q == proxy.outbound[1] IN
                  /\ q.url = Target(k).Url
                  /\ q.method = Target(k).HttpMethod
                  /\ Target(k).PassRequestBody
                       => /\ q.body = [set |-> TRUE, bytes |-> req.body]
                          /\ q.contentType = "application/json"
                  /\ ~Target(k).PassRequestBody
                       => /\ ~q.body.set
                          /\ q.body.bytes = <<>>
                          /\ ~proxy.inboundRead

\* An inbound GET with the body {"x":1} forwarded as a POST with its body.
C13_Witness ==
    /\ Proxied(1)
    /\ req.method = "GET"
    /\ req.body = <<"{\"x\":1}">>
    /\ Target(1).HttpMethod = "POST"
    /\ Target(1).PassRequestBody
    /\ Len(proxy.outbound) = 1
    /\ proxy.outbound[1].method = "POST"
    /\ proxy.outbound[1].body.bytes = <<"{\"x\":1}">>

----------------------------------------------------------------------------
(* C14: failures *)

\* The outbound request cannot be built, the connection fails, the backend
\* does not answer within the timeout, or its body cannot be read.
ProxyFails(k) ==
    \/ NewRequestError(Target(k)) # <<>>
    \/ backend.kind \in {"doError", "readError"}
    \/ backend.kind = "silent" /\ Target(k).Timeout > 0

\* C14: every failure of the proxy call ends the request with 500 and the
\* error's text as the body, written once; client.Do is called at most once
\* for a request, and not at all when the outbound request cannot be built.
C14_FailureIs500Once ==
    \A k \in 1..Len(conditions) :
        Proxied(k)
            => /\ Len(proxy.outbound) <= 1
               /\ ProxyFails(k)
                    => /\ resp.status = 500
                       /\ proxy.err # <<>>
                       /\ resp.body = proxy.err
                       /\ resp.headerCalls = 1
                       /\ resp.writeCalls = 1
                       /\ NewRequestError(Target(k)) # <<>> => proxy.outbound = <<>>
                       /\ (NewRequestError(Target(k)) = <<>> /\ ~CancelledInCall
                              /\ backend.kind = "silent")
                            => proxy.err[Len(proxy.err)] =
                                 "context deadline exceeded (Client.Timeout exceeded while awaiting headers)"

\* A backend that stays silent beyond the timeout of 2.
C14_Witness ==
    /\ Proxied(1)
    /\ ~CancelledInCall
    /\ backend.kind = "silent"
    /\ Target(1).Timeout = 2
    /\ Len(proxy.outbound) = 1
    /\ resp.status = 500
    /\ resp.body # <<>>

----------------------------------------------------------------------------
(* C19: cancellation *)

\* C19 as stated: when the caller goes away while the outbound call is in
\* flight, the outbound call is cancelled and the closure writes no status
\* and no body.
C19_NoResponseWhenCancelled ==
    \A k \in 1..Len(conditions) :
        (Proxied(k) /\ NewRequestError(Target(k)) = <<>> /\ cancelled = "await")
            => /\ Len(proxy.outbound) = 1
               /\ proxy.outbound[1].ctx.cancels
               /\ resp.headerCalls = 0
               /\ resp.writeCalls = 0
               /\ resp.body = <<>>

\* C19: the outbound request carries the inbound request's context; when
\* that context is cancelled while the outbound call is in flight, client.Do
\* returns the context's error without a response, and the closure handles
\* it as any other failure of client.Do: it writes 500 and the error's text.
C19_CancelledCallFails ==
    \A k \in 1..Len(conditions) :
        (Proxied(k) /\ NewRequestError(Target(k)) = <<>>)
            => /\ Len(proxy.outbound) = 1
               /\ proxy.outbound[1].ctx.cancels
               /\ cancelled = "await"
                    => /\ ~proxy.respObtained
                       /\ ~proxy.hung
                       /\ proxy.err = UrlError(proxy.outbound[1], "context canceled")
                       /\ resp.status = 500
                       /\ resp.body = proxy.err
                       /\ resp.headerCalls = 1
                       /\ resp.writeCalls = 1

\* The caller leaves, its body passed on, while client.Do waits for a backend
\* that would have answered.
C19_Witness ==
    /\ Proxied(1)
    /\ cancelled = "await"
    /\ req.body # <<>>
    /\ proxy.inboundRead
    /\ backend.kind = "ok"
    /\ Len(proxy.outbound) = 1
    /\ resp.status = 500

----------------------------------------------------------------------------
(* C20: release of what the closure acquired *)

\* C20: when the proxy closure has returned, by whichever return statement,
\* no deferred call is pending, a response body it obtained is closed, and
\* with PassRequestBody the inbound body is closed.
C20_ClosedOnReturn ==
    \A k \in 1..Len(conditions) :
        (Proxied(k) /\ ~proxy.hung)
            => /\ proxy.deferred = <<>>
               /\ proxy.respObtained => proxy.respClosed
               /\ Target(k).PassRequestBody => proxy.inboundClosed

\* The read of the backend's body fails while the inbound body is passed on.
C20_Witness ==
    /\ Proxied(1)
    /\ backend.kind = "readError"
    /\ Target(1).PassRequestBody
    /\ proxy.respObtained
    /\ proxy.respClosed
    /\ proxy.inboundClosed
    /\ resp.status = 500

----------------------------------------------------------------------------
(* The registration calls, one at a time *)

RegPaths == {"/a"}
RegMethods == {"POST"}
RegHeaders == {"X-Key"}
RegHeaderValues == {HV("X-Key", "someValue")}
RegChains == {<<"A">>}
RegRoutes == {NilRouteRequest, sampleRoute}
RegFuncs == {"", "sampleHandler"}

RegRequests ==
    [path : RegPaths, method : Methods, lines : {<<>>, <<<<"X-Key", "someValue">>>>},
     body : {<<>>}, gone : {FALSE}]

\* NewGag: no Condition exists and none is registered.
InitReg ==
    /\ heap = <<>>
    /\ conditions = <<>>
    /\ finalized = <<>>
    /\ callsLeft = MaxCalls
    /\ store = NoStore
    /\ inflight = <<Idle>>
    /\ phase = "config"
    /\ serveErr = ""
    /\ listener = FALSE
    /\ mux = <<>>
    /\ srv = NotServing
    /\ backend = okBackend

\* The registration calls come from one goroutine: the next one is made when
\* the one before has returned.
MayCall == callsLeft > 0 /\ ~Storing

\* g.Conditions(): a new empty Condition, registered nowhere.
Conditions ==
    /\ MayCall
    /\ callsLeft' = callsLeft - 1
    /\ heap' = Append(heap, EmptyCondition)
    /\ finalized' = Append(finalized, 0)
    /\ UNCHANGED <<conditions, phase, serveErr, listener, mux, srv, backend, store,
                   inflight>>

\* A setter called on the Condition at address a: it assigns the one field
\* and returns the same pointer. A value of one word is stored at once. Of a
\* string or a slice the words are stored one after the other, in an order
\* the build chooses, and the call is at its end with the second (see
\* StoreEnds); tears tells that a load between the two gets what is neither
\* the old value nor the new one.
Setter(a, field, to, tears) ==
    /\ MayCall
    /\ callsLeft' = callsLeft - 1
    /\ IF tears
       THEN /\ \E first \in {"len", "ptr"} :
                  store' = [NoStore EXCEPT !.a = a, !.field = field, !.first = first,
                                           ![IF field = "middlewares" THEN "seq"
                                             ELSE "str"] = to]
            /\ heap' = heap
       ELSE /\ heap' = [heap EXCEPT ![a][field] = to]
            /\ store' = store
    /\ UNCHANGED <<conditions, finalized, phase, serveErr, listener, mux, srv, backend,
                   inflight>>

\* With the pointer of one string and the length of another as long the load
\* gets one of the two.
Method(a, httpMethod) ==
    Setter(a, "httpMethod", httpMethod, Len(heap[a].httpMethod) # Len(httpMethod))

Path(a, path) == Setter(a, "path", path, Len(heap[a].path) # Len(path))

HasHeader(a, header) == Setter(a, "header", header, Len(heap[a].header) # Len(header))

\* c.headerValue is a pointer: one word.
HasHeaderValue(a, hv) == Setter(a, "headerValue", hv, FALSE)

\* The chain is a new slice at each call.
Middlewares(a, middlewares) ==
    Setter(a, "middlewares", middlewares, Len(heap[a].middlewares) # Len(middlewares))

\* append(g.conditions, c) moves the slice to a new array when the old one
\* is full, and then stores a new pointer with the new length; else it
\* stores the new length only. The array of NewGag has room for none, and a
\* new one has twice the room of the old.
Reallocates(n) == n \in {0, 1, 2, 4, 8}

\* Route and HandlerFunc: the action (a pointer or a func value, one word)
\* is assigned; the store to g.conditions of the slice with the pointer
\* appended is yet to come.
Finalize(a, field, to) ==
    /\ MayCall
    /\ callsLeft' = callsLeft - 1
    /\ heap' = [heap EXCEPT ![a][field] = to]
    /\ store' = [NoStore EXCEPT !.field = "conditions", !.first = "none",
                                !.seq = Append(conditions, a)]
    /\ UNCHANGED <<conditions, finalized, phase, serveErr, listener, mux, srv, backend,
                   inflight>>

Route(a, routeRequest) == Finalize(a, "routeRequest", routeRequest)

HandlerFunc(a, handlerFunc) == Finalize(a, "handlerFunc", handlerFunc)

\* The store to g.conditions of a slice in a new array writes the first of
\* its words.
StoreWord ==
    /\ store.field = "conditions"
    /\ store.first = "none"
    /\ Reallocates(Len(conditions))
    /\ \E first \in {"len", "ptr"} : store' = [store EXCEPT !.first = first]
    /\ UNCHANGED <<heap, conditions, phase, serveErr, listener, mux, srv, backend,
                   finalized, callsLeft, inflight>>

\* The store under way writes its last word, and the call returns: a setter
\* the pointer it was called on, Route and HandlerFunc a new empty Condition.
StoreEnds ==
    /\ Storing
    /\ store.first = "none" => ~Reallocates(Len(conditions))
    /\ IF store.field = "conditions"
       THEN /\ conditions' = store.seq
            /\ heap' = Append(heap, EmptyCondition)
            /\ finalized' = Append([finalized EXCEPT ![store.seq[Len(store.seq)]] = @ + 1],
                                   0)
       ELSE /\ heap' = [heap EXCEPT ![store.a][store.field] =
                            IF store.field = "middlewares" THEN store.seq ELSE store.str]
            /\ UNCHANGED <<conditions, finalized>>
    /\ store' = NoStore
    /\ UNCHANGED <<phase, serveErr, listener, mux, srv, backend, callsLeft, inflight>>

\* The registration calls come from one goroutine, Serve runs in another and
\* each request in one of its own; every load of Serve and of a handler is a
\* step of its own as long as a registration call may come or is under way.
NextReg ==
    \/ Conditions
    \/ \E a \in DOMAIN heap, m \in RegMethods : Method(a, m)
    \/ \E a \in DOMAIN heap, p \in RegPaths : Path(a, p)
    \/ \E a \in DOMAIN heap, h \in RegHeaders : HasHeader(a, h)
    \/ \E a \in DOMAIN heap, hv \in RegHeaderValues : HasHeaderValue(a, hv)
    \/ \E a \in DOMAIN heap, mws \in RegChains : Middlewares(a, mws)
    \/ \E a \in DOMAIN heap, rr \in RegRoutes : Route(a, rr)
    \/ \E a \in DOMAIN heap, f \in RegFuncs : HandlerFunc(a, f)
    \/ StoreWord
    \/ StoreEnds
    \/ \E ok \in BOOLEAN : Serve(ok)
    \/ \E ok \in BOOLEAN : ServeGoesOn(ok)
    \/ \E i \in DOMAIN inflight, r \in RegRequests : Accept(i, r)
    \/ \E i \in DOMAIN inflight : Load(i)
    \/ \E i \in DOMAIN inflight : EnterLayer(i)
    \/ \E i \in DOMAIN inflight : ProxyDo(i, backend)
    \/ \E i \in DOMAIN inflight : ProxyAwait(i)
    \/ \E i \in DOMAIN inflight : ProxyRead(i)
    \/ \E i \in DOMAIN inflight : LeaveLayer(i)
    \/ \E i \in DOMAIN inflight : Done(i)

SpecReg == InitReg /\ [][NextReg]_vars

----------------------------------------------------------------------------
(* C15: one action per registered Condition *)

\* C15: after any sequence of registration calls every registered Condition
\* has exactly one of its handler func and its RouteRequest set.
C15_ExactlyOneAction ==
    \A k \in 1..Len(conditions) :
        (Registered(k).handlerFunc # "") # Registered(k).routeRequest.set

----------------------------------------------------------------------------
(* C16: registered once *)

Occurrences(a) == Cardinality({k \in 1..Len(conditions) : conditions[k] = a})

\* C16: after any sequence of registration calls a Condition on which Route
\* or HandlerFunc was called is in g.conditions exactly once, and a Condition
\* on which neither was called is not in it.
C16_RegisteredExactlyOnce ==
    \A a \in DOMAIN heap :
        Occurrences(a) = IF finalized[a] > 0 THEN 1 ELSE 0

----------------------------------------------------------------------------
(* C17: nothing changes after registration *)

\* The response and what ran for request r, were it handled now and alone.
Dispatch(routes, hp, be, r) ==
    LET out == RunAlone(ServeHTTP(r, routes), hp, routes, be)
    IN <<out.resp, out.st.trace>>

\* C17: no step changes a registered Condition or removes or reorders what is
\* registered, and once Serve has bound the routes no step changes
\* g.conditions or the way any request is dispatched.
C17_RegisteredIsReadOnly ==
    [][/\ \A k \in 1..Len(conditions) :
             /\ k <= Len(conditions')
             /\ conditions'[k] = conditions[k]
             /\ heap'[conditions[k]] = heap[conditions[k]]
       /\ phase = "serving"
            => /\ conditions' = conditions
               /\ \A r \in RegRequests :
                     Dispatch(mux', heap', backend', r) = Dispatch(mux, heap, backend, r)]_vars

----------------------------------------------------------------------------
(* Requests handled at the same time *)

ConcHandlers ==
    {Cond("/a", "GET", "X-Key", NilHeaderValue, mws, "sampleHandler", NilRouteRequest) :
        mws \in {<<"A", "B">>}}

ConcProxies ==
    {Cond("/b", "", "", NilHeaderValue, mws, "", rr) :
        mws \in {<<"A">>},
        rr \in {sampleRoute,
                [sampleRoute EXCEPT !.Timeout = 0, !.PassRequestBody = FALSE],
                [sampleRoute EXCEPT !.Url = ":bad"]}}

ConcRequests ==
    [path : {"/a"}, method : {"GET"}, lines : {<<>>, <<<<"X-Key", "someValue">>>>},
     body : {<<"{\"x\":1}">>}, gone : {FALSE}]
    \cup [path : {"/b"}, method : {"POST"}, lines : {<<>>},
          body : {<<"{\"x\":1}">>}, gone : BOOLEAN]
    \cup [path : {"/zz"}, method : {"POST"}, lines : {<<>>},
          body : {<<"{\"x\":1}">>}, gone : {FALSE}]

\* The backend answers 201 or 404 with a body, or never answers.
ConcBackends ==
    {b \in Backends : /\ b.kind \in {"ok", "silent"}
                      /\ b.kind = "ok" => (b.status \in {201, 404} /\ b.body # <<>>)}

\* A handler func on /a and a proxy on /b are registered, Serve has not been
\* called, no request is being handled.
InitConc ==
    /\ heap \in {<<ca, cb>> : ca \in ConcHandlers, cb \in ConcProxies}
    /\ conditions = <<1, 2>>
    /\ finalized = <<1, 1>>
    /\ callsLeft = 0
    /\ store = NoStore
    /\ inflight = [i \in 1..MaxInFlight |-> Idle]
    /\ phase = "config"
    /\ serveErr = ""
    /\ listener = FALSE
    /\ mux = <<>>
    /\ srv = NotServing
    /\ backend = okBackend

NextConc ==
    \/ \E ok \in BOOLEAN : Serve(ok)
    \/ \E i \in DOMAIN inflight, r \in ConcRequests : Accept(i, r)
    \/ \E i \in DOMAIN inflight : EnterLayer(i)
    \/ \E i \in DOMAIN inflight, be \in ConcBackends : ProxyDo(i, be)
    \/ \E i \in DOMAIN inflight : ProxyAwait(i)
    \/ \E i \in DOMAIN inflight : ProxyRead(i)
    \/ \E i \in DOMAIN inflight : LeaveLayer(i)
    \/ \E i \in DOMAIN inflight : CallerGone(i)
    \/ \E i \in DOMAIN inflight : Done(i)
    \/ \E i \in DOMAIN inflight : Park(i)

SpecConc == InitConc /\ [][NextConc]_vars

----------------------------------------------------------------------------
(* C21: concurrent requests are independent *)

\* The trace of a handler behind the chain mws that ended with the events
\* inner: B wraps A wraps the handler.
Around(a, mws, inner) ==
    <<<<"serve", a>>>>
    \o [i \in 1..Len(mws) |-> <<"before", mws[Len(mws) + 1 - i]>>]
    \o inner
    \o [i \in 1..Len(mws) |-> <<"after", mws[i]>>]

\* The answers the proxy closure of the Condition c gives to request r when
\* the backend behaves as be for its call and the caller's going is found
\* out at gone ("": not before the closure has returned): sl holds one of
\* them. Stated from the request, the registry and the backend alone.
ProxyAnswer(sl, c, a, r, be, gone) ==
    LET rr == c.routeRequest
        w == sl.resp
        px == sl.st.px
        sent == IF rr.PassRequestBody THEN r.body ELSE <<>>
        failed(what, err) ==
            /\ w.status = 500 /\ w.body = err /\ w.writeCalls = 1 /\ px.err = err
            /\ sl.st.trace = Around(a, c.middlewares, <<<<"proxy", what>>>>)
        called ==
            /\ Len(px.outbound) = 1
            /\ px.outbound[1].url = rr.Url
            /\ px.outbound[1].method = rr.HttpMethod
            /\ px.outbound[1].body.bytes = sent
        canceled == UrlError(px.outbound[1], "context canceled")
    IN IF NewRequestError(rr) # <<>>
       THEN px.outbound = <<>> /\ failed("newRequestError", NewRequestError(rr))
       ELSE /\ called
            /\ CASE gone \in {"enter", "do"} -> failed("doError", canceled)
                 [] gone = "await" ->
                      failed("doError", canceled) /\ be.kind # "doError"
                 [] be.kind = "doError" ->
                      failed("doError", UrlError(px.outbound[1], be.err[1]))
                 [] be.kind = "silent" /\ rr.Timeout = 0 ->
                      px.hung /\ w.status = 0 /\ w.writeCalls = 0
                 [] be.kind = "silent" ->
                      /\ px.err[Len(px.err)] =
                           "context deadline exceeded (Client.Timeout exceeded while awaiting headers)"
                      /\ failed("doError", px.err)
                 [] be.kind = "readError" ->
                      \/ failed("readError", be.err)
                      \/ gone = "read" /\ failed("readError", <<"context canceled">>)
                 [] OTHER ->
                      \/ /\ w.status = be.status /\ w.body = be.body
                         /\ w.writeCalls = 1 /\ px.err = <<>>
                         /\ sl.st.trace = Around(a, c.middlewares, <<<<"proxy", "relayed">>>>)
                      \/ /\ gone = "read" /\ be.body # <<>>
                         /\ failed("readError", <<"context canceled">>)

\* The answer to the request of goroutine sl is one that its own request,
\* the registered Conditions and the behaviour of the backend towards its
\* own call give: 404 from the router when no Condition is on its path;
\* nothing written when the Condition's method or header is not the
\* request's; else the handler func's answer or the proxy closure's, behind
\* the Condition's middlewares.
OwnAnswer(sl) ==
    LET r == sl.r
        w == sl.resp
        on == {k \in 1..Len(conditions) : heap[conditions[k]].path = r.path}
        a == conditions[CHOOSE k \in on : TRUE]
        c == heap[a]
    IN IF on = {}
       THEN w.status = 404 /\ sl.st.trace = <<<<"notfound", "">>>> /\ sl.st.px = NoProxy
       ELSE IF ~(/\ c.httpMethod \in {"", r.method}
                 /\ c.header = "" \/ c.header \in DOMAIN Header(r.lines))
       THEN w.status = 200 /\ w.body = <<>> /\ sl.st.trace = <<>> /\ sl.st.px = NoProxy
       ELSE IF c.handlerFunc # ""
       THEN /\ w.status = 200 /\ w.body = sampleHandlerBody /\ w.writeCalls = 1
            /\ sl.st.trace = Around(ToString(a), c.middlewares,
                                    <<<<"handler", "sampleHandler">>>>)
            /\ sl.st.px = NoProxy
       ELSE ProxyAnswer(sl, c, ToString(a), r, sl.be, sl.cancelAt)

\* C21: whatever the interleaving of the requests handled at the same time,
\* each request that has been answered (or is left waiting for a backend
\* that never answers) has the answer its own request, the registry and the
\* backend's behaviour towards its own call give it, after the same
\* middlewares and terminal action: what is going on for another request at
\* the same time has no part in it.
C21_AnsweredFromItsOwn ==
    \A i \in DOMAIN inflight :
        inflight[i].pc \in {"done", "hung"} => OwnAnswer(inflight[i])

\* Two proxied requests were handled at the same time, the backend answered
\* one with 201 and the other with 404, and both are answered.
C21_Witness ==
    /\ MaxInFlight >= 2
    /\ inflight[1].pc = "done" /\ inflight[1].overlapped
    /\ inflight[2].pc = "done" /\ inflight[2].overlapped
    /\ inflight[1].r.path = "/b"
    /\ inflight[2].r.path = "/b"
    /\ inflight[1].be.kind = "ok" /\ inflight[1].resp.status = 201
    /\ inflight[2].be.kind = "ok" /\ inflight[2].resp.status = 404

====
